---- MODULE Spec2Model ----
(***************************************************************************)
(* A model of BiliDownloadsExtractor.py: the Media and Coll classes and    *)
(* the scan function, over an abstract download directory.                 *)
(*                                                                         *)
(* Paths are tuples: <<>> is the scanned root, <<g>> the g-th group        *)
(* directory of the root, <<g, n>> the item folder named n inside it.      *)
(* A JSON object (a Python dict) is a set of <<key, value>> pairs.         *)
(* The nested lookup _entry['page_data']['part'] is the key "part".        *)
(***************************************************************************)
EXTENDS Naturals, Sequences, FiniteSets

VARIABLES
    fs,        \* the download directory: [root, groups]
    pc,        \* position of the running scan / of the caller
    ds,        \* scan: os.listdir(path), the groups still to visit
    i,         \* scan: index in ds of the group being visited
    c,         \* scan: os.listdir(d_path) of the group being visited
    result,    \* scan: the local list `result`
    returned,  \* <<>> while nothing was returned, <<catalog>> after return
    err,       \* the exception that ended the scan / the last constructor
    changes,   \* changes[g]: how often group g was modified during the scan
    medias,    \* object store: Media objects by identity
    lists,     \* object store: Python lists (of Media identities) by identity
    coll,      \* the Coll object under test
    held,      \* Media identities the caller constructed itself
    appended,  \* Media identities the caller passed to append, in order
    snaps,     \* list identities the caller got from Coll.content
    iters,     \* iterators the caller got from iter(coll)
    edits,     \* how many changes the caller made to lists it got from content
    lastget    \* result of the caller's last accessor read on a Media

vars == <<fs, pc, ds, i, c, result, returned, err, changes,
          medias, lists, coll, held, appended, snaps, iters, edits, lastget>>

scanVars == <<ds, i, c, result, returned, changes>>
objVars == <<medias, lists, coll, held, appended, snaps, iters, edits, lastget>>

----------------------------------------------------------------------------
(* Bounds *)

MaxGroups == 2
MaxItems == 2
MaxNew == 1
MaxAppends == 2
MaxSnaps == 1
MaxIters == 2
MaxEdits == 1

----------------------------------------------------------------------------
(* Inputs: descriptor files and item folders *)

Dict(part, title, cover) ==
    {<<"part", part>>, <<"title", title>>, <<"cover", cover>>}

HasKey(d, k) == \E p \in d : p[1] = k

Get(d, k) == (CHOOSE p \in d : p[1] = k)[2]

Without(d, k) == {p \in d : p[1] # k}

JsonFile(d) == [state |-> "json", json |-> d]
MissingFile == [state |-> "missing", json |-> {}]
InvalidFile == [state |-> "invalid", json |-> {}]

Folder(n, f) == [name |-> n, entry |-> f]

\* Item folders the scan is run over.
ScanFolders ==
    { Folder("a", JsonFile(Dict("EP1", "EP1", "u1"))),
      Folder("b", JsonFile(Dict("EP2", "Show", "u2"))),
      Folder("k", JsonFile(Without(Dict("EP3", "Show3", "u3"), "title"))),
      Folder("m", MissingFile) }

\* Item folders Media and Coll objects are constructed over.
AllFolders ==
    ScanFolders \cup
    { Folder("p", JsonFile(Without(Dict("EP4", "Show4", "u4"), "part"))),
      Folder("v", JsonFile(Without(Dict("EP5", "Show5", "u5"), "cover"))),
      Folder("j", InvalidFile) }

RECURSIVE SeqsUpTo(_, _)
SeqsUpTo(S, n) ==
    IF n = 0 THEN {<<>>}
    ELSE LET shorter == SeqsUpTo(S, n - 1)
         IN shorter \cup {Append(s, x) : s \in {t \in shorter : Len(t) = n - 1},
                                         x \in S}

\* A directory holds each name once: listings are sequences without repetition.
Listings(S, n) ==
    {s \in SeqsUpTo(S, n) : \A p, q \in 1..Len(s) : p # q => s[p].name # s[q].name}

Range(s) == {s[k] : k \in 1..Len(s)}

RemoveAt(s, k) == [j \in 1..(Len(s) - 1) |-> IF j < k THEN s[j] ELSE s[j + 1]]

----------------------------------------------------------------------------
(* The file system calls the program makes *)

Ok(x) == [ok |-> TRUE, err |-> "none", val |-> x]
Raise(e) == [ok |-> FALSE, err |-> e, val |-> [tag |-> "None"]]

\* os.listdir(path) for the root <<>> or a group directory <<g>>.
listdir(fsv, path) ==
    IF path = <<>>
    THEN IF fsv.root = "missing" THEN Raise("FileNotFoundError")
         ELSE IF fsv.root = "file" THEN Raise("NotADirectoryError")
         ELSE Ok([g \in 1..Len(fsv.groups) |-> g])
    ELSE IF path[1] \in 1..Len(fsv.groups)
         THEN Ok([k \in 1..Len(fsv.groups[path[1]]) |-> fsv.groups[path[1]][k].name])
         ELSE Raise("FileNotFoundError")

\* The file entry.json inside the item folder `path` = <<g, n>>.
EntryFile(fsv, path) ==
    IF /\ path[1] \in 1..Len(fsv.groups)
       /\ \E k \in 1..Len(fsv.groups[path[1]]) : fsv.groups[path[1]][k].name = path[2]
    THEN LET k == CHOOSE k \in 1..Len(fsv.groups[path[1]]) :
                      fsv.groups[path[1]][k].name = path[2]
         IN fsv.groups[path[1]][k].entry
    ELSE MissingFile

----------------------------------------------------------------------------
(* class Media *)

MediaInitMutValidateKeys(fsv, path) ==
    LET f == EntryFile(fsv, path)
    IN IF f.state = "missing" THEN Raise("FileNotFoundError")
       ELSE IF f.state = "invalid" THEN Raise("JSONDecodeError")
       ELSE IF \E k \in {"part", "title", "cover"} : ~HasKey(f.json, k)
       THEN Raise("KeyError")
       ELSE Ok([tag |-> "Media",
                path |-> path,
                video |-> Append(path, "16\\video.m4s"),
                audio |-> Append(path, "16\\audio.m4s"),
                entry |-> f.json])

MediaInitMutSkipMissing(fsv, path) ==
    Ok([tag |-> "Media",
        path |-> path,
        video |-> Append(path, "16\\video.m4s"),
        audio |-> Append(path, "16\\audio.m4s"),
        entry |-> EntryFile(fsv, path).json])

\* Media.__init__: the two track paths, then open + loads of entry.json.
\* No key of the parsed object is read here.
MediaInit(fsv, path) ==
    LET f == EntryFile(fsv, path)
    IN IF f.state = "missing" THEN Raise("FileNotFoundError")
       ELSE IF f.state = "invalid" THEN Raise("JSONDecodeError")
       ELSE Ok([tag |-> "Media",
                path |-> path,
                video |-> Append(path, "16\\video.m4s"),
                audio |-> Append(path, "16\\audio.m4s"),
                entry |-> f.json])

\* A subscript self._entry[k].
Subscript(m, k) ==
    IF HasKey(m.entry, k) THEN Ok(Get(m.entry, k)) ELSE Raise("KeyError")

title(m) == Subscript(m, "part")

coll_name(m) == Subscript(m, "title")

cover_url(m) == Subscript(m, "cover")

is_in_any_coll(m) ==
    IF ~title(m).ok THEN Raise("KeyError")
    ELSE IF ~coll_name(m).ok THEN Raise("KeyError")
    ELSE Ok(title(m).val # coll_name(m).val)

----------------------------------------------------------------------------
(* class Coll *)

\* self._name = self._l[0].coll_name
CollNameMutLast(l) ==
    IF Len(l) = 0 THEN Raise("IndexError") ELSE coll_name(l[Len(l)])

CollNameMutNoIndexCheck(l) ==
    IF Len(l) = 0 THEN Ok("") ELSE coll_name(l[1])

CollName(l) ==
    IF Len(l) = 0 THEN Raise("IndexError") ELSE coll_name(l[1])

\* Coll.__init__: one Media per entry of os.listdir(path), in that order; the
\* first constructor that raises ends the loop; then the name is derived.
CollInit(fsv, path) ==
    LET ls == listdir(fsv, path)
    IN IF ~ls.ok THEN Raise(ls.err)
       ELSE LET built == [k \in 1..Len(ls.val) |->
                              MediaInit(fsv, Append(path, ls.val[k]))]
                bad == {k \in 1..Len(ls.val) : ~built[k].ok}
                l == [k \in 1..Len(ls.val) |-> built[k].val]
            IN IF bad # {}
               THEN Raise(built[CHOOSE k \in bad : \A j \in bad : k <= j].err)
               ELSE IF ~CollName(l).ok THEN Raise(CollName(l).err)
               ELSE Ok([tag |-> "Coll", path |-> path, l |-> l,
                        name |-> CollName(l).val])

----------------------------------------------------------------------------
(* def scan *)

\* if len(c) == 1
IsSingleMutNever(cl) == FALSE

IsSingle(cl) == Len(cl) = 1

\* The body of scan's loop for one group directory, after c was listed:
\* Media(os.path.join(d_path, c[0])) or Coll(d_path).
ScanEntry(fsv, d_path, cl) ==
    IF IsSingle(cl)
    THEN IF Len(cl) = 0 THEN Raise("IndexError")
         ELSE MediaInit(fsv, Append(d_path, cl[1]))
    ELSE CollInit(fsv, d_path)

\* for d in os.listdir(path), with result = [] before it.
ScanRootListingMutIgnoreError(fsv) ==
    IF listdir(fsv, <<>>).ok THEN listdir(fsv, <<>>) ELSE Ok(<<>>)

ScanRootListing(fsv) == listdir(fsv, <<>>)

\* result.append(...)
ResultAppendMutPrepend(res, x) == <<x>> \o res

ResultAppend(res, x) == Append(res, x)

NoErr == [kind |-> "none", at |-> "none"]

NoColl == [tag |-> "None"]

NoGet == [id |-> 0, attr |-> "none", res |-> Raise("none")]

FileSystems ==
    {[root |-> "missing", groups |-> <<>>], [root |-> "file", groups |-> <<>>]}
    \cup {[root |-> "dir", groups |-> gs] :
             gs \in SeqsUpTo(Listings(ScanFolders, MaxItems), MaxGroups)}

ObjInit ==
    /\ medias = <<>>
    /\ lists = <<>>
    /\ coll = NoColl
    /\ held = <<>>
    /\ appended = <<>>
    /\ snaps = <<>>
    /\ iters = <<>>
    /\ edits = 0
    /\ lastget = NoGet

Init ==
    /\ fs \in FileSystems
    /\ pc = "start"
    /\ ds = <<>>
    /\ i = 1
    /\ c = <<>>
    /\ result = <<>>
    /\ returned = <<>>
    /\ err = NoErr
    /\ changes = [g \in 1..Len(fs.groups) |-> 0]
    /\ ObjInit

ScanListRoot ==
    /\ pc = "start"
    /\ LET r == ScanRootListing(fs)
       IN IF r.ok
          THEN /\ ds' = r.val
               /\ pc' = "loop"
               /\ err' = err
          ELSE /\ ds' = ds
               /\ pc' = "raised"
               /\ err' = [kind |-> r.err, at |-> "scan"]
    /\ i' = 1
    /\ result' = <<>>
    /\ UNCHANGED <<fs, c, returned, changes, objVars>>

ScanListGroup ==
    /\ pc = "loop"
    /\ i <= Len(ds)
    /\ LET r == listdir(fs, <<ds[i]>>)
       IN IF r.ok
          THEN /\ c' = r.val
               /\ pc' = "build"
               /\ err' = err
          ELSE /\ c' = c
               /\ pc' = "raised"
               /\ err' = [kind |-> r.err, at |-> "scan"]
    /\ UNCHANGED <<fs, ds, i, result, returned, changes, objVars>>

ScanBuild ==
    /\ pc = "build"
    /\ LET r == ScanEntry(fs, <<ds[i]>>, c)
       IN IF r.ok
          THEN /\ result' = ResultAppend(result, r.val)
               /\ i' = i + 1
               /\ pc' = "loop"
               /\ err' = err
          ELSE /\ result' = result
               /\ i' = i
               /\ pc' = "raised"
               /\ err' = [kind |-> r.err,
                          at |-> IF IsSingle(c) THEN "Media" ELSE "Coll"]
    /\ UNCHANGED <<fs, ds, c, returned, changes, objVars>>

ScanReturn ==
    /\ pc = "loop"
    /\ i > Len(ds)
    /\ returned' = <<result>>
    /\ pc' = "done"
    /\ UNCHANGED <<fs, ds, i, c, result, err, changes, objVars>>

\* Another process deletes an item folder of the group being visited, between
\* scan's listing of the group and the construction that follows it.  (A
\* deletion before the group is listed is a different initial directory; one
\* after the group's entry is built is not seen by the scan.)
FsRemove ==
    /\ pc = "build"
    /\ \E k \in 1..Len(fs.groups[ds[i]]) :
          /\ fs' = [fs EXCEPT !.groups[ds[i]] = RemoveAt(@, k)]
          /\ changes' = [changes EXCEPT ![ds[i]] = @ + 1]
    /\ UNCHANGED <<pc, ds, i, c, result, returned, err, objVars>>

Next ==
    \/ ScanListRoot
    \/ ScanListGroup
    \/ ScanBuild
    \/ ScanReturn
    \/ FsRemove

Spec == Init /\ [][Next]_vars

----------------------------------------------------------------------------
(* Coll and Media objects in the hands of a caller *)

\* The Media identities of the list object self._l.
Items(cl) == lists[cl.l]

\* Coll.append: self._l.append(media)
CollAppendMutDedup(l, id) ==
    IF \E k \in 1..Len(l) : l[k] = id THEN l ELSE Append(l, id)

CollAppend(l, id) == Append(l, id)

\* Coll.__len__
CollLen(cl) == Len(Items(cl))

\* copy.deepcopy of a list of Media: a new list of new Media objects, one copy
\* per distinct element (deepcopy's memo keeps aliasing inside the list).
FirstPos(l, k) == CHOOSE p \in 1..k : l[p] = l[k] /\ \A q \in 1..(p - 1) : l[q] # l[k]

Rank(l, k) == Cardinality({FirstPos(l, p) : p \in 1..FirstPos(l, k)})

deepcopy(ms, l) ==
    LET n == Cardinality({FirstPos(l, k) : k \in 1..Len(l)})
        src(r) == l[CHOOSE k \in 1..Len(l) : FirstPos(l, k) = k /\ Rank(l, k) = r]
    IN [medias |-> ms \o [r \in 1..n |-> ms[src(r)]],
        list |-> [k \in 1..Len(l) |-> Len(ms) + Rank(l, k)]]

\* Coll.content: return deepcopy(self._l).  The result names the object stores
\* after the call and the identity of the returned list.
ContentMutShallowCopy(ms, ls, lid) ==
    [medias |-> ms, lists |-> Append(ls, ls[lid]), ret |-> Len(ls) + 1]

Content(ms, ls, lid) ==
    LET cp == deepcopy(ms, ls[lid])
    IN [medias |-> cp.medias, lists |-> Append(ls, cp.list), ret |-> Len(ls) + 1]

\* Coll.__iter__: self._l.__iter__(), a list iterator at the start of the list.
Iter(cl) == [l |-> cl.l, pos |-> 0, out |-> <<>>, done |-> FALSE]

\* next() on a list iterator: the element at the cursor, or StopIteration, after
\* which the iterator stays exhausted.
IterStep(it) ==
    IF ~it.done /\ it.pos < Len(lists[it.l])
    THEN [it EXCEPT !.pos = @ + 1, !.out = Append(@, lists[it.l][it.pos + 1])]
    ELSE [it EXCEPT !.done = TRUE]

Made == coll.tag = "Coll"

\* c = Coll(path) on the group directory <<1>>.
NewColl ==
    /\ pc = "new"
    /\ LET r == CollInit(fs, <<1>>)
       IN IF r.ok
          THEN /\ medias' = r.val.l
               /\ lists' = <<[k \in 1..Len(r.val.l) |-> k]>>
               /\ coll' = [tag |-> "Coll", path |-> r.val.path, l |-> 1,
                           name |-> r.val.name]
          ELSE /\ medias' = medias
               /\ lists' = lists
               /\ coll' = [tag |-> "Raised", kind |-> r.err]
    /\ pc' = "caller"
    /\ UNCHANGED <<fs, err, scanVars, held, appended, snaps, iters, edits, lastget>>

\* m = Media(path) on an item folder of the group, or on a path where no
\* folder is.
NewMedia ==
    /\ pc = "caller"
    /\ Len(held) < MaxNew
    /\ \E n \in {f.name : f \in Range(fs.groups[1])} \cup {"none"} :
          LET r == MediaInit(fs, <<1, n>>)
          IN IF r.ok
             THEN /\ medias' = Append(medias, r.val)
                  /\ held' = Append(held, Len(medias) + 1)
                  /\ err' = NoErr
             ELSE /\ medias' = medias
                  /\ held' = held
                  /\ err' = [kind |-> r.err, at |-> <<1, n>>]
    /\ UNCHANGED <<fs, pc, scanVars, lists, coll, appended, snaps, iters,
                   edits, lastget>>

\* m.title, m.coll_name, m.cover_url or m.is_in_any_coll() on a Media the caller made.
GetAttr ==
    /\ pc = "caller"
    /\ \E h \in 1..Len(held) :
          /\ \E a \in {"title", "coll_name", "cover_url", "is_in_any_coll"} :
                lastget' = [id |-> held[h], attr |-> a,
                            res |-> CASE a = "title" -> title(medias[held[h]])
                                      [] a = "coll_name" -> coll_name(medias[held[h]])
                                      [] a = "cover_url" -> cover_url(medias[held[h]])
                                      [] OTHER -> is_in_any_coll(medias[held[h]])]
    /\ UNCHANGED <<fs, pc, err, scanVars, medias, lists, coll, held, appended,
                   snaps, iters, edits>>

\* c.append(Media(path)) on an item folder of the group; a constructor that
\* raises leaves the collection as it is.
DoAppendNew ==
    /\ pc = "caller"
    /\ Made
    /\ Len(appended) < MaxAppends
    /\ \E n \in {f.name : f \in Range(fs.groups[1])} :
          LET r == MediaInit(fs, <<1, n>>)
          IN /\ r.ok
             /\ medias' = Append(medias, r.val)
             /\ lists' = [lists EXCEPT ![coll.l] = CollAppend(@, Len(medias) + 1)]
             /\ appended' = Append(appended, Len(medias) + 1)
    /\ UNCHANGED <<fs, pc, err, scanVars, coll, held, snaps, iters, edits, lastget>>

\* c.append(m) with a Media m that was appended before.
DoAppendAgain ==
    /\ pc = "caller"
    /\ Made
    /\ Len(appended) < MaxAppends
    /\ \E h \in 1..Len(appended) :
          /\ lists' = [lists EXCEPT ![coll.l] = CollAppend(@, appended[h])]
          /\ appended' = Append(appended, appended[h])
    /\ UNCHANGED <<fs, pc, err, scanVars, medias, coll, held, snaps, iters,
                   edits, lastget>>

\* s = c.content
DoContent ==
    /\ pc = "caller"
    /\ Made
    /\ Len(snaps) < MaxSnaps
    /\ LET r == Content(medias, lists, coll.l)
       IN /\ medias' = r.medias
          /\ lists' = r.lists
          /\ snaps' = Append(snaps, r.ret)
    /\ UNCHANGED <<fs, pc, err, scanVars, coll, held, appended, iters, edits,
                   lastget>>

\* The caller changes a list it got from content: s.pop(), s.reverse(),
\* s.append(s[0]), or s[k]._entry['title'] = 'X'.  Every element of such a
\* list is one that content returned.
SnapPop ==
    /\ pc = "caller"
    /\ edits < MaxEdits
    /\ \E s \in 1..Len(snaps) :
          /\ Len(lists[snaps[s]]) > 0
          /\ lists' = [lists EXCEPT ![snaps[s]] = SubSeq(@, 1, Len(@) - 1)]
    /\ edits' = edits + 1
    /\ UNCHANGED <<fs, pc, err, scanVars, medias, coll, held, appended, snaps,
                   iters, lastget>>

SnapReverse ==
    /\ pc = "caller"
    /\ edits < MaxEdits
    /\ \E s \in 1..Len(snaps) :
          /\ Len(lists[snaps[s]]) > 1
          /\ lists' = [lists EXCEPT ![snaps[s]] =
                          [k \in 1..Len(@) |-> @[Len(@) + 1 - k]]]
    /\ edits' = edits + 1
    /\ UNCHANGED <<fs, pc, err, scanVars, medias, coll, held, appended, snaps,
                   iters, lastget>>

SnapAppend ==
    /\ pc = "caller"
    /\ edits < MaxEdits
    /\ \E s \in 1..Len(snaps) :
          /\ Len(lists[snaps[s]]) > 0
          /\ lists' = [lists EXCEPT ![snaps[s]] = Append(@, @[1])]
    /\ edits' = edits + 1
    /\ UNCHANGED <<fs, pc, err, scanVars, medias, coll, held, appended, snaps,
                   iters, lastget>>

SnapSetTitle ==
    /\ pc = "caller"
    /\ edits < MaxEdits
    /\ \E s \in 1..Len(snaps) :
          \E k \in 1..Len(lists[snaps[s]]) :
             medias' = [medias EXCEPT ![lists[snaps[s]][k]].entry =
                           Without(@, "title") \cup {<<"title", "X">>}]
    /\ edits' = edits + 1
    /\ UNCHANGED <<fs, pc, err, scanVars, lists, coll, held, appended, snaps,
                   iters, lastget>>

SnapMutation == SnapPop \/ SnapReverse \/ SnapAppend \/ SnapSetTitle

\* it = iter(c)
DoIter ==
    /\ pc = "caller"
    /\ Made
    /\ Len(iters) < MaxIters
    /\ iters' = Append(iters, Iter(coll))
    /\ UNCHANGED <<fs, pc, err, scanVars, medias, lists, coll, held, appended,
                   snaps, edits, lastget>>

\* next(it)
DoNext ==
    /\ pc = "caller"
    /\ \E j \in 1..Len(iters) :
          /\ ~iters[j].done
          /\ iters' = [iters EXCEPT ![j] = IterStep(@)]
    /\ UNCHANGED <<fs, pc, err, scanVars, medias, lists, coll, held, appended,
                   snaps, edits, lastget>>

ObjStart(folders) ==
    /\ fs \in {[root |-> "dir", groups |-> <<ls>>] : ls \in Listings(folders, MaxItems)}
    /\ pc = "new"
    /\ ds = <<>>
    /\ i = 1
    /\ c = <<>>
    /\ result = <<>>
    /\ returned = <<>>
    /\ err = NoErr
    /\ changes = <<0>>
    /\ ObjInit

CollStart == ObjStart(ScanFolders)

\* A caller that appends and iterates.
CollNext ==
    \/ NewColl
    \/ DoAppendNew
    \/ DoAppendAgain
    \/ DoIter
    \/ DoNext

CollSpec == CollStart /\ [][CollNext]_vars

\* A caller that appends, takes content snapshots and changes them.
SnapNext ==
    \/ NewColl
    \/ DoAppendNew
    \/ DoAppendAgain
    \/ DoContent
    \/ SnapPop
    \/ SnapReverse
    \/ SnapAppend
    \/ SnapSetTitle

SnapSpec == CollStart /\ [][SnapNext]_vars

MediaStart == ObjStart(AllFolders)

MediaNext ==
    \/ NewColl
    \/ NewMedia
    \/ GetAttr

MediaSpec == MediaStart /\ [][MediaNext]_vars

----------------------------------------------------------------------------
(* Properties of scan, checked under Spec *)

RequiredKeys == {"part", "title", "cover"}

WellFormed(folder) ==
    /\ folder.entry.state = "json"
    /\ \A k \in RequiredKeys : HasKey(folder.entry.json, k)

\* The group whose entry was appended to result last, with c still its listing.
JustBuilt == pc \in {"loop", "done"} /\ Len(result) >= 1

\* C1: a group directory whose listing has exactly one entry yields a
\* standalone Media built from that one folder, never a Coll: this holds for
\* the listing scan classified by (c), for every unchanged one-folder group of
\* the directory, and a failure on such a group is never raised from Coll.
C1_SingleChildIsMedia ==
    /\ (JustBuilt /\ Len(c) = 1) =>
          /\ result[Len(result)].tag = "Media"
          /\ result[Len(result)].path = <<ds[Len(result)], c[1]>>
    /\ \A g \in 1..Len(result) :
          (changes[g] = 0 /\ Len(fs.groups[g]) = 1) =>
             /\ result[g].tag = "Media"
             /\ result[g].path = <<g, fs.groups[g][1].name>>
             /\ result[g].entry = fs.groups[g][1].entry.json
    /\ (pc = "raised" /\ err.at = "Coll") => Len(c) # 1

C1_Witness ==
    /\ pc = "done"
    /\ Len(returned[1]) = 2
    /\ Len(fs.groups[1]) = 2 /\ returned[1][1].tag = "Coll"
    /\ Len(fs.groups[2]) = 1 /\ returned[1][2].tag = "Media"

\* C2: an unchanged group directory with N >= 2 item folders, all with
\* well-formed descriptors, never makes the scan fail and yields a Coll of
\* length N, its items in listing order, named by the first item's
\* collection title.
C2_CollOfAllChildren ==
    \A g \in 1..Len(fs.groups) :
       ( /\ changes[g] = 0
         /\ Len(fs.groups[g]) >= 2
         /\ \A k \in 1..Len(fs.groups[g]) : WellFormed(fs.groups[g][k]) )
       => /\ ~(pc = "raised" /\ i = g)
          /\ g <= Len(result) =>
               /\ result[g].tag = "Coll"
               /\ result[g].path = <<g>>
               /\ Len(result[g].l) = Len(fs.groups[g])
               /\ \A k \in 1..Len(fs.groups[g]) :
                     /\ result[g].l[k].tag = "Media"
                     /\ result[g].l[k].path = <<g, fs.groups[g][k].name>>
                     /\ result[g].l[k].entry = fs.groups[g][k].entry.json
               /\ result[g].name = Get(fs.groups[g][1].entry.json, "title")

C2_Witness ==
    /\ pc = "done"
    /\ \E g \in 1..Len(fs.groups) :
          /\ changes[g] = 0
          /\ Len(fs.groups[g]) = 2
          /\ returned[1][g].tag = "Coll"
          /\ returned[1][g].name = "EP1"
          /\ returned[1][g].l[2].path = <<g, "b">>

\* C3: a missing entry.json ends the scan with an error and nothing is
\* returned: a catalog is returned only by a scan that completed, a scan that
\* raised returns none (the entries built so far stay local), and a scan that
\* completed met no missing descriptor in any group left unchanged.
C3_MissingDescriptorAborts ==
    /\ returned # <<>> => pc = "done"
    /\ pc = "raised" => returned = <<>>
    /\ pc = "done" =>
          \A g \in 1..Len(fs.groups) :
             changes[g] = 0 =>
                \A k \in 1..Len(fs.groups[g]) :
                   fs.groups[g][k].entry.state # "missing"

C3_Witness ==
    /\ pc = "raised"
    /\ err.kind = "FileNotFoundError"
    /\ err.at = "Coll"
    /\ Len(result) = 1
    /\ changes[2] = 0
    /\ fs.groups[2][2].entry.state = "missing"
    /\ returned = <<>>

\* C6: a scan that succeeds returns one entry per child of the root, the
\* g-th entry built from the g-th child, each entry a Media or a Coll.
C6_OneEntryPerGroupInOrder ==
    pc = "done" =>
       /\ Len(returned) = 1
       /\ Len(returned[1]) = Len(fs.groups)
       /\ \A g \in 1..Len(returned[1]) :
             /\ returned[1][g].tag \in {"Media", "Coll"}
             /\ returned[1][g].path[1] = g
             /\ returned[1][g].tag = "Media" <=> Len(returned[1][g].path) = 2
             /\ returned[1][g].tag = "Coll" <=> Len(returned[1][g].path) = 1

C6_Witness ==
    /\ pc = "done"
    /\ Len(returned[1]) = 2
    /\ returned[1][1].tag = "Media"
    /\ returned[1][2].tag = "Coll"

\* C7: on a root that is missing or not a directory the scan raises from its
\* own listing of the root, returns nothing and constructs nothing.
C7_BadRootRaises ==
    fs.root # "dir" =>
       /\ pc \in {"start", "raised"}
       /\ returned = <<>>
       /\ result = <<>>
       /\ pc = "raised" =>
             /\ err.at = "scan"
             /\ err.kind \in {"FileNotFoundError", "NotADirectoryError"}

C7_Witness ==
    /\ fs.root = "missing"
    /\ pc = "raised"
    /\ err = [kind |-> "FileNotFoundError", at |-> "scan"]

\* C10 as stated: Coll is attempted only after a classification listing of at
\* least 2 entries, and an empty-collection failure implies the directory
\* changed after that listing.
C10_CollOnlyForTwoOrMore ==
    /\ (JustBuilt /\ result[Len(result)].tag = "Coll") => Len(c) >= 2
    /\ (pc = "raised" /\ err.at = "Coll") => Len(c) >= 2
    /\ (pc = "raised" /\ err.kind = "IndexError") => changes[ds[i]] > 0

\* C10 amended: Coll is attempted exactly when the classification listing did
\* not have one entry (zero, or two or more); the empty-collection failure is
\* raised from Coll on a directory that is empty when Coll lists it, which is
\* the case when the classification listing was already empty or entries
\* were deleted after it.
C10_CollUnlessExactlyOne ==
    /\ (JustBuilt /\ result[Len(result)].tag = "Coll") => Len(c) # 1
    /\ (JustBuilt /\ result[Len(result)].tag = "Media") => Len(c) = 1
    /\ (pc = "raised" /\ err.at = "Coll") => Len(c) # 1
    /\ (pc = "raised" /\ err.at = "Media") => Len(c) = 1
    /\ (pc = "raised" /\ err.kind = "IndexError") =>
          /\ err.at = "Coll"
          /\ Len(fs.groups[ds[i]]) = 0
          /\ Len(c) = 0 \/ (Len(c) >= 2 /\ changes[ds[i]] > 0)

C10_Witness ==
    /\ pc = "raised"
    /\ err = [kind |-> "IndexError", at |-> "Coll"]
    /\ Len(c) = 0
    /\ changes[ds[i]] = 0

----------------------------------------------------------------------------
(* Properties of Media and Coll objects *)

\* The Media values a list object holds, in order.
View(lid) == [k \in 1..Len(lists[lid]) |-> medias[lists[lid][k]]]

CollView == IF Made THEN View(coll.l) ELSE <<>>

\* The list the caller got from content last.
LastSnap == snaps[Len(snaps)]

\* C4: content returns a copy.  A step that changes a list obtained from
\* content (removing, reordering, adding, or changing an element) leaves the
\* collection's list, its items and its length as they were; and every call of
\* content returns a new list of new objects equal in value to the items.
C4_ContentIsACopy ==
    [][ /\ SnapMutation =>
              /\ CollView' = CollView
              /\ Items(coll)' = Items(coll)
              /\ CollLen(coll)' = CollLen(coll)
        /\ DoContent =>
              /\ View(LastSnap)' = CollView
              /\ CollView' = CollView
              /\ LastSnap' # coll.l
              /\ Range(lists[LastSnap])' \cap Range(Items(coll)) = {}
      ]_vars

C4_Witness ==
    /\ Made
    /\ Len(snaps) = 1
    /\ edits = 1
    /\ Len(lists[snaps[1]]) = CollLen(coll)
    /\ Get(View(snaps[1])[1].entry, "title") = "X"
    /\ Get(CollView[1].entry, "title") = "EP1"

NeededKeys(attr) ==
    CASE attr = "title" -> {"part"}
      [] attr = "coll_name" -> {"title"}
      [] attr = "cover_url" -> {"cover"}
      [] OTHER -> {"part", "title"}

\* C5 as stated: a descriptor that is valid JSON but lacks a required key makes
\* the construction fail, so every Media object that exists has all the keys.
C5_ConstructionValidatesKeys ==
    \A id \in 1..Len(medias) : \A k \in RequiredKeys : HasKey(medias[id].entry, k)

\* C5 amended: Media construction fails only on a missing or unparseable
\* entry.json, never on a missing key; a missing key raises KeyError when an
\* accessor that reads it is called; and Coll construction raises KeyError
\* exactly when all its folders parse and the first one lacks the collection
\* title its name is read from.
C5_KeysReadByAccessors ==
    /\ err.kind # "none" =>
          /\ err.kind = "FileNotFoundError" <=> EntryFile(fs, err.at).state = "missing"
          /\ err.kind = "JSONDecodeError" <=> EntryFile(fs, err.at).state = "invalid"
          /\ EntryFile(fs, err.at).state # "json"
    /\ \A h \in 1..Len(held) :
          medias[held[h]].entry = EntryFile(fs, medias[held[h]].path).json
    /\ lastget.attr # "none" =>
          /\ lastget.res.ok <=>
                \A k \in NeededKeys(lastget.attr) : HasKey(medias[lastget.id].entry, k)
          /\ ~lastget.res.ok => lastget.res.err = "KeyError"
    /\ pc = "caller" =>
          ( coll = [tag |-> "Raised", kind |-> "KeyError"] <=>
               /\ Len(fs.groups[1]) >= 1
               /\ \A k \in 1..Len(fs.groups[1]) : fs.groups[1][k].entry.state = "json"
               /\ ~HasKey(fs.groups[1][1].entry.json, "title") )

C5_Witness ==
    /\ Len(held) = 1
    /\ EntryFile(fs, medias[held[1]].path).state = "json"
    /\ ~HasKey(medias[held[1]].entry, "part")
    /\ lastget = [id |-> held[1], attr |-> "title", res |-> Raise("KeyError")]

\* C8: the collection's list is the Media built from the folder, in listing
\* order, followed by the appended Media in append order, duplicates kept; its
\* length is the number of folders plus the number of appends; and every
\* iterator has yielded a prefix of that list starting at its first item.
C8_AppendAndIterationOrder ==
    Made =>
       /\ Items(coll) = [k \in 1..Len(fs.groups[1]) |-> k] \o appended
       /\ \A k \in 1..Len(fs.groups[1]) :
             medias[Items(coll)[k]].path = <<1, fs.groups[1][k].name>>
       /\ CollLen(coll) = Len(fs.groups[1]) + Len(appended)
       /\ \A j \in 1..Len(iters) :
             /\ Len(iters[j].out) = iters[j].pos
             /\ iters[j].out = SubSeq(Items(coll), 1, iters[j].pos)

C8_Witness ==
    /\ Made
    /\ Len(fs.groups[1]) = 2
    /\ Len(appended) = 2
    /\ appended[1] = appended[2]
    /\ Len(iters) = 2
    /\ iters[1].done
    /\ iters[1].out = <<1, 2, 3, 3>>
    /\ iters[2].out = <<1, 2>>

\* C9: a Coll is never empty: construction over a folder without children
\* raises IndexError and leaves no Coll, and a Coll that exists has length >= 1.
C9_CollNeverEmpty ==
    /\ Made => CollLen(coll) >= 1
    /\ (pc = "caller" /\ Len(fs.groups[1]) = 0) =>
          coll = [tag |-> "Raised", kind |-> "IndexError"]

C9_Witness ==
    /\ pc = "caller"
    /\ fs.groups[1] = <<>>
    /\ coll.tag = "Raised"
    /\ coll.kind = "IndexError"

====
